---- MODULE Spec2Model ----
(***************************************************************************)
(* The classification orchestration engine of app/orchestrator.py:          *)
(* classify_document (flow loop, terminal-node selection, result builder,   *)
(* secondary analysis, consensus resolution, review gate) and the pure      *)
(* helpers it calls; and the flow library of app/prompt_lib.py (cached      *)
(* configuration load, get_prompt, get_prompt_flow) under concurrent        *)
(* callers.                                                                 *)
(*                                                                          *)
(* Conventions.  Python None is the string None; a key that is not in a     *)
(* dict is Absent.  Confidences are integers in hundredths (0.7 is 70);     *)
(* the agreement score is kept in quarters (1.0 is 4).  Text that the code  *)
(* strips or slices (citation snippets, regions) is a sequence of           *)
(* one-character strings.                                                   *)
(***************************************************************************)
EXTENDS Integers, Sequences, FiniteSets, TLC

VARIABLES
    flow,             \* get_prompt_flow(): the ordered node list
    signals,          \* DetectorSignals argument
    images_data,      \* TRUE iff the images_data argument is non-empty
    pc,               \* position inside classify_document
    idx,              \* index of the node the for-loop visits next
    flow_outputs,     \* node id -> raw output, for the ids recorded so far
    prompt_errors,    \* ordered list of failed node ids
    summary_pages,    \* pages for which a summary was collected
    audit_citations,  \* running audit list of Citations
    final_node_id,    \* terminal node id or None
    halt,             \* why the loop ended: "none", "error", "stop_if", "final_node"
    primary,          \* prompt_tree_result / primary analysis, or NotYet
    secondary_reply,  \* what run_secondary_reasoning did, or NotYet
    secondary,        \* structured secondary analysis, or NotYet
    result,           \* the ClassificationResult, or NotYet
    fn,               \* a call of a pure helper: its arguments and its return value
    config_file,      \* app/prompt_lib.py: what CONFIG_PATH holds
    heap,             \* the objects yaml.safe_load has returned so far
    cache,            \* lru_cache of load_prompt_library: 0, or the cached object
    default_flow,     \* the module global _DEFAULT_PROMPT_FLOW
    callers           \* thread -> its call into prompt_lib and what it holds

vars == <<flow, signals, images_data, pc, idx, flow_outputs, prompt_errors,
          summary_pages, audit_citations, final_node_id, halt, primary,
          secondary_reply, secondary, result, fn,
          config_file, heap, cache, default_flow, callers>>

\* the state of app/prompt_lib.py
Library == <<config_file, heap, cache, default_flow, callers>>

-----------------------------------------------------------------------------
(* Python values *)

None == "<None>"
Absent == "<absent>"
NotYet == [set |-> FALSE]

\* A Python str kept as a sequence of characters, or None.
PyNone == [null |-> TRUE, s |-> <<>>]
PyStr(chars) == [null |-> FALSE, s |-> chars]
StrTruthy(x) == ~x.null /\ Len(x.s) > 0

IsSpace(c) == c \in {" ", "\t", "\n"}

\* str.strip() on a character sequence
RECURSIVE LStrip(_)
LStrip(s) == IF s = <<>> THEN <<>>
             ELSE IF IsSpace(Head(s)) THEN LStrip(Tail(s)) ELSE s

RECURSIVE RStrip(_)
RStrip(s) == IF s = <<>> THEN <<>>
             ELSE IF IsSpace(s[Len(s)]) THEN RStrip(SubSeq(s, 1, Len(s) - 1)) ELSE s

Strip(s) == RStrip(LStrip(s))

\* s[:n]
Prefix(s, n) == SubSeq(s, 1, IF Len(s) < n THEN Len(s) ELSE n)

Categories == {"Public", "Confidential", "Highly Sensitive", "Unsafe"}

\* A confidence field of a model reply: a number, a missing key, null, or a
\* value float() rejects.
Num(v) == [k |-> "num", v |-> v]
NoConf == [k |-> "absent", v |-> 0]
NullConf == [k |-> "null", v |-> 0]
BadConf == [k |-> "bad", v |-> 0]

\* float(d.get(key, default)): the number, or "raise"
FloatOf(c, default) ==
    CASE c.k = "num" -> [exc |-> FALSE, v |-> c.v]
      [] c.k = "absent" -> [exc |-> FALSE, v |-> default]
      [] OTHER -> [exc |-> TRUE, v |-> 0]

\* A list-valued field of a model reply, or a missing key.
NoList == [k |-> "absent", v |-> <<>>]
ListOf(xs) == [k |-> "list", v |-> xs]

-----------------------------------------------------------------------------
(* Raw model replies.  A reply is a failure marker {mock, error,          *)
(* prompt_node}, a falsy value (None, {}), a list, or a dict.  `stop` is   *)
(* the value under the key "stop" that stop_if rules of the flows below    *)
(* look at; the three entry lists are the keys the citation rules read.    *)

\* One entry of pii_spans / citations / findings.  page is None, a page
\* number, or "n/a" (not an integer).
Entry(page, text, snippet) ==
    [dict |-> TRUE, page |-> page, text |-> text, snippet |-> snippet,
     description |-> PyNone, image_index |-> None, region |-> PyNone,
     regions_of_concern |-> <<>>]

NotADict == [Entry(None, PyNone, PyNone) EXCEPT !.dict = FALSE]

DictOut ==
    [shape |-> "dict", error |-> Absent, stop |-> Absent,
     final_category |-> Absent, confidence |-> NoConf, secondary_tags |-> NoList,
     explanation |-> Absent, pii_spans |-> <<>>, citations |-> <<>>,
     findings |-> <<>>, summaries |-> {}]

\* {"mock": True, "error": str(exc), "prompt_node": name}
Marker(msg) == [DictOut EXCEPT !.shape = "marker", !.error = msg]

NoneOut == [DictOut EXCEPT !.shape = "none"]

\* a list reply carrying {page, summary} entries for `pages`
ListOut(pages) == [DictOut EXCEPT !.shape = "list", !.summaries = pages]

\* Python truthiness of a scalar read out of a reply
Truthy(v) == v \notin {None, "false", ""}

_output_has_error(output) == output.shape = "marker"

\* A JSON-like Python value as the stop rules see it: None, a bool, a str,
\* a dict (a function from its keys) or a list.
NoKeys == [key \in {} |-> 0]
JNone == [t |-> "none", s |-> "", d |-> NoKeys, l |-> <<>>]
JBool(b) == [JNone EXCEPT !.t = "bool", !.s = IF b THEN "True" ELSE "False"]
JStr(s) == [JNone EXCEPT !.t = "str", !.s = s]
JDict(d) == [JNone EXCEPT !.t = "dict", !.d = d]
JList(l) == [JNone EXCEPT !.t = "list", !.l = l]

\* bool(value)
TruthyJ(value) ==
    CASE value.t = "none" -> FALSE
      [] value.t = "bool" -> value.s = "True"
      [] value.t = "str" -> value.s # ""
      [] value.t = "dict" -> DOMAIN value.d # {}
      [] OTHER -> value.l # <<>>

\* int(part): the path segments that are integer literals; int() raises
\* ValueError on every other segment
IntLiterals == ("0" :> 0) @@ ("1" :> 1) @@ ("2" :> 2) @@ ("-1" :> (0 - 1))

\* orchestrator.py 472-484: the loop over path.split("."), from `current`
RECURSIVE Walk(_, _)
Walk(current, parts) ==
    IF parts = <<>> THEN current
    ELSE LET part == Head(parts)
         IN CASE current.t = "dict" ->
                    Walk(IF part \in DOMAIN current.d THEN current.d[part] ELSE JNone,
                         Tail(parts))
              [] current.t = "list" ->
                    IF part \notin DOMAIN IntLiterals THEN JNone
                    ELSE LET index == IntLiterals[part]
                         IN IF index < 0 \/ index >= Len(current.l) THEN JNone
                            ELSE Walk(current.l[index + 1], Tail(parts))
              [] OTHER -> JNone

\* `path` is the rule's dotted path already split into its segments
_extract_path_value(payload, path) ==
    IF payload.t = "none" THEN JNone ELSE Walk(payload, path)

\* A stop_if rule: the segments of its path (none when neither path nor
\* field is given) and an optional equals clause.
Rule(path) == [path |-> path, has_equals |-> FALSE, equals |-> JNone]
RuleEq(path, v) == [path |-> path, has_equals |-> TRUE, equals |-> v]

RuleFires(cond, payload) ==
    /\ cond.path # <<>>
    /\ LET value == _extract_path_value(payload, cond.path)
       IN IF cond.has_equals THEN value = cond.equals ELSE TruthyJ(value)

_stop_conditions_met(node_cfg, payload) ==
    \E k \in 1..Len(node_cfg.stop_if) : RuleFires(node_cfg.stop_if[k], payload)

\* the {page, summary} entries of a list reply
RECURSIVE SummaryEntries(_)
SummaryEntries(pages) ==
    IF pages = {} THEN <<>>
    ELSE LET page == CHOOSE x \in pages : TRUE
         IN <<JDict(("page" :> JStr(page)) @@ ("summary" :> JStr("summary")))>>
            \o SummaryEntries(pages \ {page})

\* A reply as the JSON-like value the stop rules walk: of a dict reply the
\* keys "stop" and "final_category" when they are there.
Payload(output) ==
    CASE output.shape = "none" -> JNone
      [] output.shape = "list" -> JList(SummaryEntries(output.summaries))
      [] output.shape = "marker" ->
            JDict(("mock" :> JBool(TRUE)) @@ ("error" :> JStr(output.error))
                  @@ ("prompt_node" :> JStr("node")))
      [] OTHER ->
            JDict((IF output.stop = Absent THEN NoKeys
                   ELSE ("stop" :> JBool(output.stop = "true")))
                  @@ (IF output.final_category = Absent THEN NoKeys
                      ELSE ("final_category" :> JStr(output.final_category))))

-----------------------------------------------------------------------------
(* Node configuration *)

\* A node with every optional key left out.
Node(id) ==
    [id |-> id, runner |-> "standard", has_images |-> FALSE,
     signals_true |-> {}, signals_false |-> {}, depends_on |-> {},
     stop_on_error |-> "unset", stop_if |-> <<>>, final_node |-> FALSE,
     collect_summary |-> FALSE, use_summary_pages |-> FALSE]

\* getattr(signals, attr, False)
GetAttr(sig, attr) ==
    CASE attr = "has_pii" -> sig.has_pii
      [] attr = "has_unsafe_pattern" -> sig.has_unsafe_pattern
      [] attr = "has_internal_markers" -> sig.has_internal_markers
      [] OTHER -> FALSE

_should_run_node(node_cfg, sig, images) ==
    /\ ~(node_cfg.has_images /\ ~images)
    /\ \A attr \in node_cfg.signals_true : GetAttr(sig, attr)
    /\ \A attr \in node_cfg.signals_false : ~GetAttr(sig, attr)

\* _dependencies_ready asking for a usable output, not just any
_dependencies_ready_usable(node_cfg, outputs) ==
    \A dep \in node_cfg.depends_on :
        dep \in DOMAIN outputs /\ outputs[dep].shape # "marker"

_dependencies_ready(node_cfg, outputs) ==
    \A dep \in node_cfg.depends_on : dep \in DOMAIN outputs

\* node.get("stop_on_error", False)
StopOnErrorDefaultFalse(node_cfg) == node_cfg.stop_on_error = "true"

\* stop_on_error ignored: every failure stops the flow
StopOnErrorAlways(node_cfg) == node_cfg.stop_on_error \in {"unset", "true", "false"}

\* node.get("stop_on_error", True)
StopOnError(node_cfg) == node_cfg.stop_on_error # "false"

-----------------------------------------------------------------------------
(* app/prompt_lib.py: the configuration file, the objects parsed from it,  *)
(* and references to them.  Python objects are mutable and shared, so what *)
(* a call returns is a reference: to an object yaml.safe_load built (kept  *)
(* in heap), to the module's default flow, or to a fresh object only the   *)
(* caller knows.                                                           *)

_DEFAULT_PROMPT_FLOW ==
    << [Node("image_analysis") EXCEPT !.runner = "multimodal", !.has_images = TRUE,
                                      !.stop_on_error = "false"],
       [Node("precheck") EXCEPT !.collect_summary = TRUE],
       [Node("pii_scan") EXCEPT !.depends_on = {"precheck"},
                                !.use_summary_pages = TRUE,
                                !.signals_true = {"has_pii"}],
       [Node("unsafe_scan") EXCEPT !.depends_on = {"precheck"},
                                   !.use_summary_pages = TRUE],
       [Node("confidentiality_scan") EXCEPT !.depends_on = {"precheck", "unsafe_scan"},
                                            !.use_summary_pages = TRUE],
       [Node("final_decision") EXCEPT !.depends_on = {"confidentiality_scan"},
                                      !.use_summary_pages = TRUE,
                                      !.final_node = TRUE] >>

\* prompt_flow: null
NullList == [k |-> "null", v |-> <<>>]

\* one entry of the prompts table
Prompt(content) == [role |-> "system", content |-> content]

NoPrompts == [k |-> "absent", v |-> <<>>]
Prompts(names) == [k |-> "dict", v |-> [n \in names |-> Prompt("instructions")]]

\* What yaml.safe_load returns: None for a file without content, else the
\* mapping with its "prompts" and "prompt_flow" keys.
YamlNone == [t |-> "none", prompts |-> NoPrompts, prompt_flow |-> NoList]
YamlDict(prompts, prompt_flow) ==
    [t |-> "dict", prompts |-> prompts, prompt_flow |-> prompt_flow]

ConfiguredFlow ==
    << [Node("precheck") EXCEPT !.stop_on_error = "false"],
       [Node("final_decision") EXCEPT !.depends_on = {"precheck"},
                                      !.final_node = TRUE] >>

\* CONFIG_PATH: no file, or a file and the document in it
NoFile == [exists |-> FALSE, doc |-> YamlNone]
File(doc) == [exists |-> TRUE, doc |-> doc]

FileVals ==
    { NoFile,
      File(YamlNone),
      File(YamlDict(Prompts({"precheck"}), NoList)),
      File(YamlDict(Prompts({"precheck"}), NullList)),
      File(YamlDict(Prompts({"precheck"}), ListOf(<<>>))),
      File(YamlDict(Prompts({"precheck", "final_decision"}), ListOf(ConfiguredFlow))),
      File(YamlDict(NoPrompts, ListOf(ConfiguredFlow))) }

\* open(CONFIG_PATH) raises when there is no file
OpenRaises(file) == ~file.exists

\* yaml.safe_load(f)
safe_load(file) == file.doc

\* References
NoRef == [k |-> "nothing", obj |-> 0, name |-> "", v |-> <<>>]
CfgRef(obj) == [NoRef EXCEPT !.k = "cfg", !.obj = obj]
PromptRef(obj, name) == [NoRef EXCEPT !.k = "prompt", !.obj = obj, !.name = name]
FlowRef(obj) == [NoRef EXCEPT !.k = "cfg_flow", !.obj = obj]
DefaultRef == [NoRef EXCEPT !.k = "default"]
OwnRef(v) == [NoRef EXCEPT !.k = "own", !.v = v]

\* the value a reference leads to
Deref(ref) ==
    CASE ref.k = "cfg" -> heap[ref.obj]
      [] ref.k = "prompt" -> heap[ref.obj].prompts.v[ref.name]
      [] ref.k = "cfg_flow" -> heap[ref.obj].prompt_flow.v
      [] ref.k = "default" -> default_flow
      [] OTHER -> ref.v

\* returning the object itself in place of a copy
deepcopy_alias(ref) == ref

\* copy.deepcopy: a fresh object with the value of the one referred to
deepcopy(ref) == OwnRef(Deref(ref))

Threads == {"t1", "t2"}

\* a thread that is not inside prompt_lib and holds nothing
Outside ==
    [pc |-> "idle", op |-> "", name |-> "", cfg |-> 0, raised |-> FALSE,
     ref |-> NoRef, seen |-> <<>>, mutated |-> FALSE, calls |-> 0]

\* prompt_lib right after import
LibraryFresh ==
    /\ heap = <<>>
    /\ cache = 0
    /\ default_flow = _DEFAULT_PROMPT_FLOW
    /\ callers = [t \in Threads |-> Outside]

\* prompt_lib after classify_document has fetched flow `f` from it
LibraryLoaded(f) ==
    /\ config_file = File(YamlDict(Prompts({f[k].id : k \in 1..Len(f)}), ListOf(f)))
    /\ heap = <<safe_load(config_file)>>
    /\ cache = 1
    /\ default_flow = _DEFAULT_PROMPT_FLOW
    /\ callers = [t \in Threads |-> Outside]

-----------------------------------------------------------------------------
(* Citations *)

\* Citation(page=..., snippet=..., image_index=..., region=..., source=...)
Citation(page, snippet, image_index, region, source) ==
    [page |-> page, snippet |-> snippet, image_index |-> image_index,
     region |-> region, source |-> source]

\* Whether the Citation model accepts the page (an optional integer).
CitationAccepts(entry) == entry.page # "n/a"

\* ", ".join(regions); raises on an element that is not a str
RECURSIVE JoinRegions(_)
JoinRegions(regions) ==
    IF Len(regions) = 1 THEN regions[1].s
    ELSE regions[1].s \o <<",", " ">> \o JoinRegions(Tail(regions))

JoinRaises(regions) == \E k \in 1..Len(regions) : regions[k].null

\* One branch of _collect_citations: walk `entries`, reading the text from
\* `field`.  An exception (the Citation model rejecting a value, join()
\* failing) leaves the loop through the except clause, and the function
\* returns what it had appended until then.
RECURSIVE Harvest(_, _, _, _)
Harvest(entries, field, node_id, acc) ==
    IF entries = <<>> THEN acc
    ELSE LET e == Head(entries)
             text == e[field]
         IN IF ~e.dict \/ ~StrTruthy(text)
            THEN Harvest(Tail(entries), field, node_id, acc)
            ELSE IF node_id = "image_analysis"
            THEN IF JoinRaises(e.regions_of_concern) \/ ~CitationAccepts(e)
                 THEN acc
                 ELSE Harvest(Tail(entries), field, node_id,
                        Append(acc, Citation(e.page, text.s, e.image_index,
                            IF e.regions_of_concern = <<>> THEN PyNone
                            ELSE PyStr(JoinRegions(e.regions_of_concern)),
                            node_id)))
            ELSE IF ~CitationAccepts(e)
            THEN acc
            ELSE Harvest(Tail(entries), field, node_id,
                    Append(acc, Citation(e.page, text.s,
                        IF node_id = "final_decision" THEN e.image_index ELSE None,
                        IF node_id = "final_decision" THEN e.region ELSE PyNone,
                        node_id)))

_collect_citations(node_id, output) ==
    IF output.shape # "dict" THEN <<>>
    ELSE CASE node_id = "pii_scan" -> Harvest(output.pii_spans, "text", node_id, <<>>)
           [] node_id = "unsafe_scan" -> Harvest(output.citations, "text", node_id, <<>>)
           [] node_id = "confidentiality_scan" ->
                 Harvest(output.citations, "snippet", node_id, <<>>)
           [] node_id = "final_decision" ->
                 Harvest(output.citations, "snippet", node_id, <<>>)
           [] node_id = "image_analysis" ->
                 Harvest(output.findings, "description", node_id, <<>>)
           [] OTHER -> <<>>

SnippetKeyLen == 120

\* CiteKey without the source
CiteKeyNoSource(cite) ==
    <<cite.page, cite.image_index,
      Strip(IF cite.region.null THEN <<>> ELSE cite.region.s),
      Prefix(Strip(cite.snippet), SnippetKeyLen)>>

\* the dedup key of one citation
CiteKey(cite) ==
    <<cite.page, cite.image_index,
      Strip(IF cite.region.null THEN <<>> ELSE cite.region.s),
      IF cite.source = None THEN "" ELSE cite.source,
      Prefix(Strip(cite.snippet), SnippetKeyLen)>>

RECURSIVE DedupeFrom(_, _, _)
DedupeFrom(citations, seen, unique) ==
    IF citations = <<>> THEN unique
    ELSE LET key == CiteKey(Head(citations))
         IN IF key \notin seen
            THEN DedupeFrom(Tail(citations), seen \cup {key}, Append(unique, Head(citations)))
            ELSE DedupeFrom(Tail(citations), seen, unique)

_dedupe_citations(citations) == DedupeFrom(citations, {}, <<>>)

-----------------------------------------------------------------------------
(* Result builder and consensus helpers *)

\* dict.get(key) for a key that may be missing
Get(v) == IF v = Absent THEN None ELSE v

\* seq[:n]
FirstN(xs, n) == SubSeq(xs, 1, IF Len(xs) < n THEN Len(xs) ELSE n)

\* _fallback_decision with the PII rung tested before the unsafe rung
_fallback_decision_pii_first(sig) ==
    LET ladder ==
            IF sig.has_pii
            THEN <<"Highly Sensitive", <<"PII">>, "PII patterns detected.">>
            ELSE IF sig.has_unsafe_pattern
            THEN <<"Unsafe", <<"Safety-Risk">>, "Unsafe keywords detected.">>
            ELSE IF sig.has_internal_markers
            THEN <<"Confidential", <<"Internal">>, "Internal markers detected.">>
            ELSE <<"Public", <<>>, "No sensitive markers found.">>
    IN [final_category |-> ladder[1], secondary_tags |-> ladder[2],
        confidence |-> 70,
        citations |-> FirstN(IF sig.pii_hits # <<>> THEN sig.pii_hits
                             ELSE sig.unsafe_hits, 3),
        explanation |-> ladder[3]]

_fallback_decision(sig) ==
    LET ladder ==
            IF sig.has_unsafe_pattern
            THEN <<"Unsafe", <<"Safety-Risk">>, "Unsafe keywords detected.">>
            ELSE IF sig.has_pii
            THEN <<"Highly Sensitive", <<"PII">>, "PII patterns detected.">>
            ELSE IF sig.has_internal_markers
            THEN <<"Confidential", <<"Internal">>, "Internal markers detected.">>
            ELSE <<"Public", <<>>, "No sensitive markers found.">>
    IN [final_category |-> ladder[1], secondary_tags |-> ladder[2],
        confidence |-> 70,
        citations |-> FirstN(IF sig.pii_hits # <<>> THEN sig.pii_hits
                             ELSE sig.unsafe_hits, 3),
        explanation |-> ladder[3]]

\* orchestrator.py 140-150: the terminal reply's own citations
RECURSIVE FinalDecisionCitations(_)
FinalDecisionCitations(entries) ==
    IF entries = <<>> THEN <<>>
    ELSE LET c == Head(entries)
         IN IF c.dict /\ StrTruthy(c.snippet)
            THEN <<Citation(c.page, c.snippet.s, c.image_index, c.region,
                            "final_decision")>>
                 \o FinalDecisionCitations(Tail(entries))
            ELSE FinalDecisionCitations(Tail(entries))

\* ParseRaises reading final_category with .get
ParseRaisesKeyOptional(final_out) ==
    \/ final_out.shape # "dict"
    \/ FloatOf(final_out.confidence, 70).exc
    \/ \E k \in 1..Len(final_out.citations) :
          /\ final_out.citations[k].dict
          /\ StrTruthy(final_out.citations[k].snippet)
          /\ ~CitationAccepts(final_out.citations[k])

\* orchestrator.py 135-167: whether reading the terminal reply raises
ParseRaises(final_out) ==
    \/ final_out.shape # "dict"
    \/ final_out.final_category = Absent
    \/ FloatOf(final_out.confidence, 70).exc
    \/ \E k \in 1..Len(final_out.citations) :
          /\ final_out.citations[k].dict
          /\ StrTruthy(final_out.citations[k].snippet)
          /\ ~CitationAccepts(final_out.citations[k])

\* BuildPromptTreeResult returning only the hit spans when it falls back
BuildPromptTreeResultDropsAudit(final_out, sig, audit) ==
    IF final_out.shape \in {"none", "marker"} \/ ParseRaises(final_out)
    THEN LET fb == _fallback_decision(sig)
             merged == audit \o fb.citations
         IN [audit |-> merged,
             tree |-> [final_category |-> fb.final_category,
                       secondary_tags |-> fb.secondary_tags,
                       confidence |-> fb.confidence,
                       citations |-> fb.citations,
                       explanation |-> fb.explanation,
                       source |-> "fallback"]]
    ELSE LET own == FinalDecisionCitations(final_out.citations)
             merged == audit \o own
         IN [audit |-> merged,
             tree |-> [final_category |-> final_out.final_category,
                       secondary_tags |-> final_out.secondary_tags.v,
                       confidence |-> FloatOf(final_out.confidence, 70).v,
                       citations |-> IF merged # <<>> THEN _dedupe_citations(merged)
                                     ELSE own,
                       explanation |-> IF final_out.explanation = Absent THEN ""
                                       ELSE final_out.explanation,
                       source |-> "prompt_tree"]]

\* orchestrator.py 119-185: prompt_tree_result and the audit list after it
BuildPromptTreeResult(final_out, sig, audit) ==
    IF final_out.shape \in {"none", "marker"} \/ ParseRaises(final_out)
    THEN LET fb == _fallback_decision(sig)
             merged == audit \o fb.citations
         IN [audit |-> merged,
             tree |-> [final_category |-> fb.final_category,
                       secondary_tags |-> fb.secondary_tags,
                       confidence |-> fb.confidence,
                       citations |-> IF merged # <<>> THEN _dedupe_citations(merged)
                                     ELSE fb.citations,
                       explanation |-> fb.explanation,
                       source |-> "fallback"]]
    ELSE LET own == FinalDecisionCitations(final_out.citations)
             merged == audit \o own
         IN [audit |-> merged,
             tree |-> [final_category |-> final_out.final_category,
                       secondary_tags |-> final_out.secondary_tags.v,
                       confidence |-> FloatOf(final_out.confidence, 70).v,
                       citations |-> IF merged # <<>> THEN _dedupe_citations(merged)
                                     ELSE own,
                       explanation |-> IF final_out.explanation = Absent THEN ""
                                       ELSE final_out.explanation,
                       source |-> "prompt_tree"]]

_build_primary_analysis(tree_result) ==
    [engine |-> tree_result.source,
     category |-> tree_result.final_category,
     secondary_tags |-> tree_result.secondary_tags,
     confidence |-> tree_result.confidence,
     explanation |-> tree_result.explanation,
     citations |-> tree_result.citations]

\* The reply of run_secondary_reasoning: kind "raise" (an exception whose
\* str() is `error`), "none" (None or {}), "nondict" (a truthy value that is
\* no dict) or "dict".
Reply ==
    [kind |-> "dict", error |-> Absent, label |-> Absent, Sensitivity |-> Absent,
     confidence |-> NoConf, rationale |-> Absent, content_safety |-> Absent,
     critical_info |-> <<>>, needs_review |-> FALSE]

\* orchestrator.py 188-192: the raw reply, an exception turned into {"error": str(exc)}
SecondaryRaw(reply) ==
    IF reply.kind = "raise" THEN [Reply EXCEPT !.error = reply.error] ELSE reply

_structure_secondary_analysis(raw) ==
    IF raw.kind = "none" \/ (raw.kind = "dict" /\ Truthy(Get(raw.error)))
    THEN [exc |-> FALSE,
          label |-> None,
          confidence |-> 0,
          explanation |-> IF raw.kind = "dict" THEN raw.error
                          ELSE "Secondary LLM unavailable",
          content_safety |-> None,
          critical_info |-> <<>>,
          needs_review |-> TRUE,
          error |-> IF raw.kind = "dict" THEN raw.error ELSE "secondary_llm_error"]
    ELSE LET base_raw == IF raw.kind = "nondict" THEN Reply ELSE raw
             conf == FloatOf(base_raw.confidence, 70)
         IN [exc |-> conf.exc,
             label |-> IF Truthy(Get(base_raw.label)) THEN base_raw.label
                       ELSE Get(base_raw.Sensitivity),
             confidence |-> conf.v,
             explanation |-> IF Truthy(Get(base_raw.rationale)) THEN base_raw.rationale
                             ELSE "",
             content_safety |-> Get(base_raw.content_safety),
             critical_info |-> base_raw.critical_info,
             needs_review |-> base_raw.needs_review \/ conf.v < 80,
             error |-> None]

\* Pairs {a, b} of confidences a fifth apart for which the IEEE-754 value of
\* abs(a/100 - b/100) lies below the IEEE-754 value of 0.2.
FloatRoundsBelow ==
    {{10, 30}, {15, 35}, {40, 60}, {50, 70}, {55, 75}, {65, 85}, {75, 95}, {80, 100}}

Abs(x) == IF x < 0 THEN -x ELSE x

\* abs(pt_conf - sec_conf) < 0.2 on floats, for confidences that are multiples of 0.05
GapBelowFifth(a, b) ==
    \/ Abs(a - b) < 20
    \/ Abs(a - b) = 20 /\ {a, b} \in FloatRoundsBelow

Disagreement(kind, a, b, gap) == [kind |-> kind, a |-> a, b |-> b, gap |-> gap]

\* _compute_llm_agreement scoring a confidence gap 0.0 instead of 0.5
_compute_llm_agreement_gap_zero(primary_analysis, secondary_analysis) ==
    IF Truthy(secondary_analysis.error)
    THEN [score |-> 0,
          disagreements |-> <<Disagreement("secondary_llm_error", None, None, 0)>>]
    ELSE LET pt_cat == primary_analysis.category
             sec_cat == secondary_analysis.label
             cat_ok == Truthy(pt_cat) /\ Truthy(sec_cat) /\ pt_cat = sec_cat
             pt_conf == IF primary_analysis.confidence = 0 THEN 70
                        ELSE primary_analysis.confidence
             sec_conf == IF secondary_analysis.confidence = 0 THEN 70
                         ELSE secondary_analysis.confidence
             conf_ok == GapBelowFifth(pt_conf, sec_conf)
             components == <<IF cat_ok THEN 4 ELSE 0, IF conf_ok THEN 4 ELSE 0>>
         IN [score |-> (components[1] + components[2]) \div Len(components),
             disagreements |->
                (IF cat_ok THEN <<>>
                 ELSE <<Disagreement("category", pt_cat, sec_cat, 0)>>)
                \o (IF conf_ok THEN <<>>
                    ELSE <<Disagreement("confidence_gap", None, None,
                                        Abs(pt_conf - sec_conf))>>)]

\* _compute_llm_agreement recording no disagreement for a confidence gap
_compute_llm_agreement_silent_gap(primary_analysis, secondary_analysis) ==
    IF Truthy(secondary_analysis.error)
    THEN [score |-> 0,
          disagreements |-> <<Disagreement("secondary_llm_error", None, None, 0)>>]
    ELSE LET pt_cat == primary_analysis.category
             sec_cat == secondary_analysis.label
             cat_ok == Truthy(pt_cat) /\ Truthy(sec_cat) /\ pt_cat = sec_cat
             pt_conf == IF primary_analysis.confidence = 0 THEN 70
                        ELSE primary_analysis.confidence
             sec_conf == IF secondary_analysis.confidence = 0 THEN 70
                         ELSE secondary_analysis.confidence
             conf_ok == GapBelowFifth(pt_conf, sec_conf)
             components == <<IF cat_ok THEN 4 ELSE 0, IF conf_ok THEN 4 ELSE 2>>
         IN [score |-> (components[1] + components[2]) \div Len(components),
             disagreements |->
                IF cat_ok THEN <<>>
                ELSE <<Disagreement("category", pt_cat, sec_cat, 0)>>]

\* Returns the score in quarters and the disagreement list.
_compute_llm_agreement(primary_analysis, secondary_analysis) ==
    IF Truthy(secondary_analysis.error)
    THEN [score |-> 0,
          disagreements |-> <<Disagreement("secondary_llm_error", None, None, 0)>>]
    ELSE LET pt_cat == primary_analysis.category
             sec_cat == secondary_analysis.label
             cat_ok == Truthy(pt_cat) /\ Truthy(sec_cat) /\ pt_cat = sec_cat
             pt_conf == IF primary_analysis.confidence = 0 THEN 70
                        ELSE primary_analysis.confidence
             sec_conf == IF secondary_analysis.confidence = 0 THEN 70
                         ELSE secondary_analysis.confidence
             conf_ok == GapBelowFifth(pt_conf, sec_conf)
             components == <<IF cat_ok THEN 4 ELSE 0, IF conf_ok THEN 4 ELSE 2>>
         IN [score |-> (components[1] + components[2]) \div Len(components),
             disagreements |->
                (IF cat_ok THEN <<>>
                 ELSE <<Disagreement("category", pt_cat, sec_cat, 0)>>)
                \o (IF conf_ok THEN <<>>
                    ELSE <<Disagreement("confidence_gap", None, None,
                                        Abs(pt_conf - sec_conf))>>)]

\* priority.get(cat, 0)
Priority(cat) ==
    CASE cat = "Unsafe" -> 4
      [] cat = "Highly Sensitive" -> 3
      [] cat = "Confidential" -> 2
      [] cat = "Public" -> 1
      [] OTHER -> 0

\* _resolve_category_conflict with > in place of >=
_resolve_category_conflict_strict(cat1, cat2) ==
    IF ~Truthy(cat1) THEN cat2
    ELSE IF ~Truthy(cat2) THEN cat1
    ELSE IF Priority(cat1) > Priority(cat2) THEN cat1 ELSE cat2

_resolve_category_conflict(cat1, cat2) ==
    IF ~Truthy(cat1) THEN cat2
    ELSE IF ~Truthy(cat2) THEN cat1
    ELSE IF Priority(cat1) >= Priority(cat2) THEN cat1 ELSE cat2

\* _collect_review_triggers without the `or disagreements` test
_collect_review_triggers_score_only(final_confidence, sig, errors, agreement_score, disagreements, secondary_analysis) ==
    (IF final_confidence < 80 THEN <<"low_confidence">> ELSE <<>>)
    \o (IF sig.has_unsafe_pattern THEN <<"unsafe_detector">> ELSE <<>>)
    \o (IF errors # <<>> THEN <<"prompt_errors">> ELSE <<>>)
    \o (IF agreement_score < 3 THEN <<"llm_disagreement">> ELSE <<>>)
    \o (IF secondary_analysis.needs_review THEN <<"secondary_llm_flag">> ELSE <<>>)

\* _collect_review_triggers without the prompt_errors test
_collect_review_triggers_no_prompt_errors(final_confidence, sig, errors, agreement_score, disagreements, secondary_analysis) ==
    (IF final_confidence < 80 THEN <<"low_confidence">> ELSE <<>>)
    \o (IF sig.has_unsafe_pattern THEN <<"unsafe_detector">> ELSE <<>>)
    \o (IF agreement_score < 3 \/ disagreements # <<>>
        THEN <<"llm_disagreement">> ELSE <<>>)
    \o (IF secondary_analysis.needs_review THEN <<"secondary_llm_flag">> ELSE <<>>)

\* _collect_review_triggers without the low_confidence test
_collect_review_triggers_no_low_confidence(final_confidence, sig, errors, agreement_score, disagreements, secondary_analysis) ==
    (IF sig.has_unsafe_pattern THEN <<"unsafe_detector">> ELSE <<>>)
    \o (IF errors # <<>> THEN <<"prompt_errors">> ELSE <<>>)
    \o (IF agreement_score < 3 \/ disagreements # <<>>
        THEN <<"llm_disagreement">> ELSE <<>>)
    \o (IF secondary_analysis.needs_review THEN <<"secondary_llm_flag">> ELSE <<>>)

_collect_review_triggers(final_confidence, sig, errors, agreement_score, disagreements, secondary_analysis) ==
    (IF final_confidence < 80 THEN <<"low_confidence">> ELSE <<>>)
    \o (IF sig.has_unsafe_pattern THEN <<"unsafe_detector">> ELSE <<>>)
    \o (IF errors # <<>> THEN <<"prompt_errors">> ELSE <<>>)
    \* agreement_score < 0.7: of the quarters, 0, 1 and 2
    \o (IF agreement_score < 3 \/ disagreements # <<>>
        THEN <<"llm_disagreement">> ELSE <<>>)
    \o (IF secondary_analysis.needs_review THEN <<"secondary_llm_flag">> ELSE <<>>)

-----------------------------------------------------------------------------
(* Inputs of classify_document *)

Chars(c, n) == [k \in 1..n |-> c]

E1 == Entry("1", PyStr(<<"a">>), PyStr(<<"a">>))
E1Spaced == Entry("1", PyStr(<<" ", "a">>), PyStr(<<" ", "a">>))
ENoText == Entry("2", PyStr(<<>>), PyNone)

\* Replies a prompt node can get from the model client (a failure marker
\* when the client raised).
NodeReplies ==
    << Marker("boom"),
       NoneOut,
       ListOut({"1"}),
       [DictOut EXCEPT !.stop = "true", !.pii_spans = <<E1, ENoText>>,
                       !.citations = <<E1, E1Spaced>>],
       [DictOut EXCEPT !.final_category = "Public", !.confidence = Num(90),
                       !.secondary_tags = ListOf(<<"T1">>),
                       !.explanation = "tree rationale",
                       !.citations = <<E1>>],
       [DictOut EXCEPT !.final_category = "Confidential", !.stop = "false"],
       [DictOut EXCEPT !.final_category = "Secret", !.confidence = Num(50)],
       [DictOut EXCEPT !.final_category = "Unsafe", !.confidence = BadConf] >>

Hit(page, c) == Citation(page, <<c>>, None, PyNone, "detector")

Signals(unsafe, pii, internal, pii_hits, unsafe_hits) ==
    [has_unsafe_pattern |-> unsafe, has_pii |-> pii, has_internal_markers |-> internal,
     pii_hits |-> pii_hits, unsafe_hits |-> unsafe_hits]

\* a hit span whose snippet is the empty string
EmptyHit == Citation("1", <<>>, None, PyNone, "detector")

PiiHits == <<Hit("1", "p"), Hit("1", "q"), Hit("2", "p"), Hit("2", "q")>>
UnsafeHits == <<Hit("1", "u")>>

SignalVals ==
    {Signals(u, p, i, <<>>, <<>>) : u \in BOOLEAN, p \in BOOLEAN, i \in BOOLEAN}
    \cup {Signals(TRUE, TRUE, FALSE, PiiHits, UnsafeHits),
          Signals(TRUE, FALSE, FALSE, <<>>, UnsafeHits),
          Signals(FALSE, TRUE, TRUE, PiiHits, <<>>),
          Signals(FALSE, TRUE, FALSE, <<EmptyHit, Hit("1", "p")>>, <<>>)}

\* Replies of the secondary-reasoning client.
SecondaryReplies ==
    << [Reply EXCEPT !.kind = "raise", !.error = "timeout"],
       [Reply EXCEPT !.kind = "raise", !.error = ""],
       [Reply EXCEPT !.kind = "none"],
       [Reply EXCEPT !.kind = "nondict"],
       [Reply EXCEPT !.error = "rate limited", !.label = "Unsafe"],
       [Reply EXCEPT !.label = "Public", !.confidence = Num(85),
                     !.rationale = "secondary rationale"],
       [Reply EXCEPT !.label = "Public", !.confidence = Num(90),
                     !.rationale = "secondary rationale"],
       [Reply EXCEPT !.Sensitivity = "Unsafe", !.confidence = Num(95),
                     !.critical_info = <<"S1">>, !.needs_review = TRUE],
       [Reply EXCEPT !.label = "Confidential"],
       [Reply EXCEPT !.label = "Public", !.confidence = BadConf] >>

\* Flows: one or two nodes, the first and the second drawn from the variants
\* below, and three longer flows.
FirstNodes ==
    LET a == Node("precheck")
    IN { a,
         [a EXCEPT !.stop_on_error = "true"],
         [a EXCEPT !.stop_on_error = "false"],
         [a EXCEPT !.stop_on_error = "false", !.final_node = TRUE],
         [a EXCEPT !.stop_on_error = "false", !.stop_if = <<Rule(<<"mock">>)>>],
         [a EXCEPT !.stop_if = <<Rule(<<>>), RuleEq(<<"stop">>, JBool(TRUE))>>,
                   !.collect_summary = TRUE],
         [a EXCEPT !.final_node = TRUE],
         [a EXCEPT !.signals_true = {"has_pii"}, !.stop_on_error = "false"],
         [a EXCEPT !.id = "image_analysis", !.runner = "multimodal",
                   !.has_images = TRUE, !.stop_on_error = "false"],
         [a EXCEPT !.id = "image_analysis", !.runner = "multimodal"] }

SecondNodes ==
    LET b == Node("unsafe_scan")
    IN { b,
         [b EXCEPT !.depends_on = {"precheck"}, !.use_summary_pages = TRUE],
         [b EXCEPT !.id = "final_decision", !.final_node = TRUE,
                   !.signals_false = {"has_unsafe_pattern"}] }

ThreeNodeFlows ==
    { << [Node("precheck") EXCEPT !.stop_on_error = "false"],
         [Node("pii_scan") EXCEPT !.depends_on = {"precheck"},
                                  !.signals_true = {"has_pii"}],
         [Node("final_decision") EXCEPT !.depends_on = {"pii_scan"},
                                        !.final_node = TRUE] >>,
      << [Node("precheck") EXCEPT !.signals_false = {"has_internal_markers"}],
         [Node("confidentiality_scan") EXCEPT !.stop_on_error = "false"],
         [Node("unsafe_scan") EXCEPT !.depends_on = {"precheck"}] >> }

Flows ==
    {<<a>> : a \in FirstNodes}
    \cup {<<a, b>> : a \in FirstNodes, b \in SecondNodes}
    \cup ThreeNodeFlows

UsesImages(f) ==
    \E k \in 1..Len(f) : f[k].has_images \/ f[k].runner = "multimodal"

-----------------------------------------------------------------------------
(* classify_document *)

NoOutputs == [id \in {} |-> NoneOut]

\* where the for-loop goes after index k
AfterNode(k) == IF k > Len(flow) THEN "select" ELSE "loop"

Init ==
    /\ flow \in Flows
    /\ signals \in SignalVals
    /\ images_data \in (IF UsesImages(flow) THEN BOOLEAN ELSE {FALSE})
    /\ pc = "loop"
    /\ idx = 1
    /\ flow_outputs = NoOutputs
    /\ prompt_errors = <<>>
    /\ summary_pages = {}
    /\ audit_citations = <<>>
    /\ final_node_id = None
    /\ halt = "none"
    /\ primary = NotYet
    /\ secondary_reply = NotYet
    /\ secondary = NotYet
    /\ result = NotYet
    /\ fn = NotYet
    /\ LibraryLoaded(flow)

\* Skipped without the multimodal runner's own test for images
SkippedIgnoringImages(node) ==
    \/ ~_should_run_node(node, signals, images_data)
    \/ ~_dependencies_ready(node, flow_outputs)

\* orchestrator.py 61-69: the three `continue`s
Skipped(node) ==
    \/ ~_should_run_node(node, signals, images_data)
    \/ ~_dependencies_ready(node, flow_outputs)
    \/ node.runner = "multimodal" /\ ~images_data

SkipNode ==
    /\ pc = "loop"
    /\ Skipped(flow[idx])
    /\ idx' = idx + 1
    /\ pc' = AfterNode(idx + 1)
    /\ UNCHANGED <<flow, signals, images_data, flow_outputs, prompt_errors,
                   summary_pages, audit_citations, final_node_id, halt, primary,
                   secondary_reply, secondary, result, fn, Library>>

\* HaltReason with the final_node flag left out
HaltReasonNoFinalNode(node, output) ==
    IF _output_has_error(output) /\ StopOnError(node) THEN "error"
    ELSE IF _stop_conditions_met(node, Payload(output)) THEN "stop_if"
    ELSE "none"

\* orchestrator.py 92-109: why the loop breaks after this node, or "none"
HaltReason(node, output) ==
    IF _output_has_error(output) /\ StopOnError(node) THEN "error"
    ELSE IF _stop_conditions_met(node, Payload(output)) THEN "stop_if"
    ELSE IF node.final_node THEN "final_node"
    ELSE "none"

\* orchestrator.py 58-109: one iteration that calls the model
RunNode ==
    /\ pc = "loop"
    /\ ~Skipped(flow[idx])
    /\ \E r \in 1..Len(NodeReplies) :
        LET node == flow[idx]
            output == NodeReplies[r]
            why == HaltReason(node, output)
        IN /\ flow_outputs' = (node.id :> output) @@ flow_outputs
           /\ IF _output_has_error(output)
              THEN /\ prompt_errors' = Append(prompt_errors, node.id)
                   /\ UNCHANGED audit_citations
              ELSE /\ audit_citations' =
                        audit_citations \o _collect_citations(node.id, output)
                   /\ UNCHANGED prompt_errors
           /\ summary_pages' =
                IF why # "error" /\ node.collect_summary /\ output.shape = "list"
                THEN summary_pages \cup output.summaries
                ELSE summary_pages
           /\ halt' = why
           /\ final_node_id' = IF why # "none" THEN node.id ELSE final_node_id
           /\ idx' = idx + 1
           /\ pc' = IF why # "none" THEN "select" ELSE AfterNode(idx + 1)
    /\ UNCHANGED <<flow, signals, images_data, primary, secondary_reply, secondary,
                   result, fn, Library>>

\* the scan run in declared order instead of reversed
FirstWithOutput ==
    LET have == {k \in 1..Len(flow) : flow[k].id \in DOMAIN flow_outputs}
    IN IF have = {} THEN None
       ELSE flow[CHOOSE k \in have : \A j \in have : k <= j].id

\* for node in reversed(flow): the last declared id that is in flow_outputs
LastWithOutput ==
    LET have == {k \in 1..Len(flow) : flow[k].id \in DOMAIN flow_outputs}
    IN IF have = {} THEN None
       ELSE flow[CHOOSE k \in have : \A j \in have : j <= k].id

\* orchestrator.py 111-116
SelectTerminal ==
    /\ pc = "select"
    /\ final_node_id' = IF final_node_id = None THEN LastWithOutput ELSE final_node_id
    /\ pc' = "build"
    /\ UNCHANGED <<flow, signals, images_data, idx, flow_outputs, prompt_errors,
                   summary_pages, audit_citations, halt, primary, secondary_reply,
                   secondary, result, fn, Library>>

\* orchestrator.py 118: flow_outputs.get(final_node_id) if final_node_id else None
FinalOut == IF final_node_id = None THEN NoneOut ELSE flow_outputs[final_node_id]

\* orchestrator.py 118-185
BuildPrimary ==
    /\ pc = "build"
    /\ LET built == BuildPromptTreeResult(FinalOut, signals, audit_citations)
       IN /\ audit_citations' = built.audit
          /\ primary' = _build_primary_analysis(built.tree)
    /\ pc' = "consensus"
    /\ UNCHANGED <<flow, signals, images_data, idx, flow_outputs, prompt_errors,
                   summary_pages, final_node_id, halt, secondary_reply, secondary,
                   result, fn, Library>>

\* BuildResult taking the secondary's values whenever it has no error
BuildResultAlwaysSecondary(primary_analysis, secondary_analysis) ==
    LET agreement == _compute_llm_agreement(primary_analysis, secondary_analysis)
        has_error == Truthy(secondary_analysis.error)
        secondary_label == IF has_error THEN None ELSE secondary_analysis.label
        final_category_to_use ==
            _resolve_category_conflict(primary_analysis.category, secondary_label)
        use_secondary == ~has_error
        final_confidence == IF use_secondary THEN secondary_analysis.confidence
                            ELSE primary_analysis.confidence
        review_triggers ==
            _collect_review_triggers(final_confidence, signals, prompt_errors,
                agreement.score, agreement.disagreements, secondary_analysis)
    IN [final_category |-> final_category_to_use,
        secondary_tags |->
            IF use_secondary /\ secondary_analysis.critical_info # <<>>
            THEN secondary_analysis.critical_info
            ELSE primary_analysis.secondary_tags,
        confidence |-> final_confidence,
        explanation |-> IF use_secondary THEN secondary_analysis.explanation
                        ELSE primary_analysis.explanation,
        content_safety |-> IF Truthy(secondary_analysis.content_safety)
                           THEN secondary_analysis.content_safety
                           ELSE "Content is safe for kids",
        citations |-> primary_analysis.citations,
        requires_review |-> review_triggers # <<>>,
        review_triggers |-> review_triggers,
        dual_llm_agreement |-> agreement.score,
        disagreements |-> agreement.disagreements,
        dual_llm_disagreements_is_null |-> agreement.disagreements = <<>>]

\* orchestrator.py 195-280, given the structured secondary analysis
BuildResult(primary_analysis, secondary_analysis) ==
    LET agreement == _compute_llm_agreement(primary_analysis, secondary_analysis)
        has_error == Truthy(secondary_analysis.error)
        secondary_label == IF has_error THEN None ELSE secondary_analysis.label
        final_category_to_use ==
            _resolve_category_conflict(primary_analysis.category, secondary_label)
        use_secondary == final_category_to_use = secondary_label /\ ~has_error
        final_confidence == IF use_secondary THEN secondary_analysis.confidence
                            ELSE primary_analysis.confidence
        review_triggers ==
            _collect_review_triggers(final_confidence, signals, prompt_errors,
                agreement.score, agreement.disagreements, secondary_analysis)
    IN [final_category |-> final_category_to_use,
        secondary_tags |->
            IF use_secondary /\ secondary_analysis.critical_info # <<>>
            THEN secondary_analysis.critical_info
            ELSE primary_analysis.secondary_tags,
        confidence |-> final_confidence,
        explanation |-> IF use_secondary THEN secondary_analysis.explanation
                        ELSE primary_analysis.explanation,
        content_safety |-> IF Truthy(secondary_analysis.content_safety)
                           THEN secondary_analysis.content_safety
                           ELSE "Content is safe for kids",
        citations |-> primary_analysis.citations,
        requires_review |-> review_triggers # <<>>,
        review_triggers |-> review_triggers,
        dual_llm_agreement |-> agreement.score,
        disagreements |-> agreement.disagreements,
        dual_llm_disagreements_is_null |-> agreement.disagreements = <<>>]

\* orchestrator.py 187-280: the secondary call and everything after it.  An
\* exception _structure_secondary_analysis raises is caught nowhere and
\* leaves classify_document.
Consensus ==
    /\ pc = "consensus"
    /\ \E r \in 1..Len(SecondaryReplies) :
        LET analysis == _structure_secondary_analysis(SecondaryRaw(SecondaryReplies[r]))
        IN /\ secondary_reply' = SecondaryReplies[r]
           /\ IF analysis.exc
              THEN /\ pc' = "raised"
                   /\ UNCHANGED <<secondary, result>>
              ELSE /\ pc' = "done"
                   /\ secondary' = analysis
                   /\ result' = BuildResult(primary, analysis)
    /\ UNCHANGED <<flow, signals, images_data, idx, flow_outputs, prompt_errors,
                   summary_pages, audit_citations, final_node_id, halt, primary, fn, Library>>

Next == SkipNode \/ RunNode \/ SelectTerminal \/ BuildPrimary \/ Consensus

Spec == Init /\ [][Next]_vars

-----------------------------------------------------------------------------
(* The pure helpers on their own: a call is drawn, then evaluated. *)

MaxCites == 3

CatVals == Categories \cup {"Secret", "Restricted", None, ""}

ConfVals == {0, 50, 70, 85, 90, 100}

ErrorVals == {None, "", "secondary_llm_error", "timeout"}

Long(c) == Chars("a", SnippetKeyLen) \o <<c>>

CiteVals ==
    { Citation("1", <<"a">>, None, PyNone, "pii_scan"),
      Citation("1", <<" ", "a", " ">>, None, PyStr(<<" ">>), "pii_scan"),
      Citation("1", <<"a">>, None, PyNone, "unsafe_scan"),
      Citation("2", <<"a">>, None, PyNone, "pii_scan"),
      Citation("1", <<"a">>, "0", PyStr(<<"r">>), "final_decision"),
      Citation("1", Long("x"), None, PyNone, None),
      Citation("1", Long("y"), None, PyStr(<<>>), "") }

RECURSIVE SeqsUpTo(_, _)
SeqsUpTo(S, n) ==
    IF n = 0 THEN {<<>>}
    ELSE LET shorter == SeqsUpTo(S, n - 1)
         IN shorter \cup {Append(xs, x) : xs \in shorter, x \in S}

AgreementCalls ==
    { [op |-> "agreement", done |-> FALSE,
       primary |-> [category |-> c1, confidence |-> f1],
       secondary |-> [label |-> c2, confidence |-> f2, error |-> e]] :
      c1 \in CatVals, f1 \in ConfVals, c2 \in CatVals, f2 \in ConfVals, e \in ErrorVals }

ResolveCalls ==
    { [op |-> "resolve", done |-> FALSE, cat1 |-> c1, cat2 |-> c2] :
      c1 \in CatVals, c2 \in CatVals }

DedupeCalls ==
    { [op |-> "dedupe", done |-> FALSE, citations |-> xs] :
      xs \in SeqsUpTo(CiteVals, MaxCites) }

\* Node outputs for the stop rules: None, a bare string, a list of summary
\* entries, a failure marker, and a dict with nested dicts and lists.
StopPayloads ==
    { JNone,
      JStr("text"),
      Payload(ListOut({"1"})),
      Payload(Marker("boom")),
      JDict(("final_category" :> JStr("Unsafe"))
            @@ ("flag" :> JBool(TRUE))
            @@ ("empty" :> JStr(""))
            @@ ("nothing" :> JNone)
            @@ ("scores" :> JList(<<JStr("low"), JDict("level" :> JStr("high"))>>))
            @@ ("meta" :> JDict(("stop" :> JBool(TRUE)) @@ ("tags" :> JList(<<>>))))) }

StopPaths ==
    { <<"final_category">>, <<"flag">>, <<"empty">>, <<"nothing">>, <<"missing">>,
      <<"scores", "0">>, <<"scores", "1", "level">>, <<"scores", "2">>,
      <<"scores", "-1">>, <<"scores", "x">>, <<"final_category", "0">>,
      <<"meta", "stop">>, <<"meta", "tags">>, <<"0", "page">>, <<"mock">> }

EqualsVals == {JNone, JStr("Unsafe"), JStr("low"), JBool(TRUE)}

StopRules ==
    {Rule(path) : path \in StopPaths \cup {<<>>}}
    \cup {RuleEq(path, v) : path \in StopPaths \cup {<<>>}, v \in EqualsVals}

\* stop_if lists: one rule, or a rule behind one that has no path or that
\* looks at a key no payload has
StopIfLists ==
    {<<>>}
    \cup {<<rule>> : rule \in StopRules}
    \cup {<<first, rule>> : first \in {Rule(<<>>), RuleEq(<<>>, JNone), Rule(<<"absent">>)},
                            rule \in StopRules}

StopIfCalls ==
    { [op |-> "stop_if", done |-> FALSE, node_cfg |-> [stop_if |-> rules],
       output |-> payload] :
      rules \in StopIfLists, payload \in StopPayloads }

FallbackCalls == { [op |-> "fallback", done |-> FALSE, signals |-> s] : s \in SignalVals }

MaxEntries == 2

\* image findings: one with a region, one whose regions_of_concern holds a
\* value that is no str, one without a description
F1 ==
    [Entry("1", PyNone, PyNone) EXCEPT !.description = PyStr(<<"d">>),
                                       !.regions_of_concern = <<PyStr(<<"r">>)>>]
FBadRegion ==
    [Entry("2", PyNone, PyNone) EXCEPT !.description = PyStr(<<"e">>),
                                       !.regions_of_concern = <<PyStr(<<"r">>), PyNone>>]
FNoDescription == [Entry("1", PyNone, PyNone) EXCEPT !.regions_of_concern = <<PyNone>>]

\* an entry whose page is no integer
EBadPage == Entry("n/a", PyStr(<<"b">>), PyStr(<<"b">>))

CollectOutputs ==
    { Marker("boom"), NoneOut, ListOut({"1"}) }
    \cup { [DictOut EXCEPT !.findings = fs, !.citations = es, !.pii_spans = es] :
            fs \in SeqsUpTo({F1, FBadRegion, FNoDescription}, MaxEntries),
            es \in SeqsUpTo({E1, EBadPage, ENoText, NotADict}, MaxEntries) }

CollectCalls ==
    { [op |-> "collect", done |-> FALSE, node_id |-> n, output |-> o] :
      n \in {"precheck", "pii_scan", "unsafe_scan", "confidentiality_scan",
             "final_decision", "image_analysis"},
      o \in CollectOutputs }

FnInit ==
    /\ fn \in AgreementCalls \cup ResolveCalls \cup DedupeCalls \cup StopIfCalls
                \cup FallbackCalls \cup CollectCalls
    /\ flow = <<>>
    /\ signals = Signals(FALSE, FALSE, FALSE, <<>>, <<>>)
    /\ images_data = FALSE
    /\ pc = "fn"
    /\ idx = 1
    /\ flow_outputs = NoOutputs
    /\ prompt_errors = <<>>
    /\ summary_pages = {}
    /\ audit_citations = <<>>
    /\ final_node_id = None
    /\ halt = "none"
    /\ primary = NotYet
    /\ secondary_reply = NotYet
    /\ secondary = NotYet
    /\ result = NotYet
    /\ config_file = NoFile
    /\ LibraryFresh

Pipeline == <<flow, signals, images_data, pc, idx, flow_outputs, prompt_errors,
              summary_pages, audit_citations, final_node_id, halt, primary,
              secondary_reply, secondary, result>>

CallAgreement ==
    /\ pc = "fn" /\ fn.op = "agreement" /\ ~fn.done
    /\ fn' = [op |-> "agreement", done |-> TRUE,
              primary |-> fn.primary, secondary |-> fn.secondary,
              ret |-> _compute_llm_agreement(fn.primary, fn.secondary)]
    /\ UNCHANGED <<Pipeline, Library>>

CallResolve ==
    /\ pc = "fn" /\ fn.op = "resolve" /\ ~fn.done
    /\ fn' = [op |-> "resolve", done |-> TRUE, cat1 |-> fn.cat1, cat2 |-> fn.cat2,
              ret |-> _resolve_category_conflict(fn.cat1, fn.cat2)]
    /\ UNCHANGED <<Pipeline, Library>>

CallDedupe ==
    /\ pc = "fn" /\ fn.op = "dedupe" /\ ~fn.done
    /\ fn' = [op |-> "dedupe", done |-> TRUE, citations |-> fn.citations,
              ret |-> _dedupe_citations(fn.citations)]
    /\ UNCHANGED <<Pipeline, Library>>

CallStopIf ==
    /\ pc = "fn" /\ fn.op = "stop_if" /\ ~fn.done
    /\ fn' = [op |-> "stop_if", done |-> TRUE, node_cfg |-> fn.node_cfg,
              output |-> fn.output,
              ret |-> _stop_conditions_met(fn.node_cfg, fn.output)]
    /\ UNCHANGED <<Pipeline, Library>>

CallFallback ==
    /\ pc = "fn" /\ fn.op = "fallback" /\ ~fn.done
    /\ fn' = [op |-> "fallback", done |-> TRUE, signals |-> fn.signals,
              ret |-> _fallback_decision(fn.signals)]
    /\ UNCHANGED <<Pipeline, Library>>

CallCollect ==
    /\ pc = "fn" /\ fn.op = "collect" /\ ~fn.done
    /\ fn' = [op |-> "collect", done |-> TRUE, node_id |-> fn.node_id,
              output |-> fn.output,
              ret |-> _collect_citations(fn.node_id, fn.output)]
    /\ UNCHANGED <<Pipeline, Library>>

FnNext ==
    \/ CallAgreement \/ CallResolve \/ CallDedupe \/ CallStopIf
    \/ CallFallback \/ CallCollect

FnSpec == FnInit /\ [][FnNext]_vars

-----------------------------------------------------------------------------
(* app/prompt_lib.py under concurrent callers.  load_prompt_library is      *)
(* wrapped by functools.lru_cache: a call looks its key up, on a miss runs  *)
(* the function (the interpreter lock is released during the file read,    *)
(* so other threads run), and then stores the result unless the key has     *)
(* been stored in the meantime.  An exception is not cached.                *)

MaxCalls == 2

Requests ==
    { [op |-> "load_prompt_library", name |-> ""],
      [op |-> "get_prompt", name |-> "precheck"],
      [op |-> "get_prompt", name |-> "final_decision"],
      [op |-> "get_prompt_flow", name |-> ""] }

\* what a function of prompt_lib hands back: an exception or a reference
Raised == [raised |-> TRUE, ref |-> NoRef]
Returned(ref) == [raised |-> FALSE, ref |-> ref]

\* prompt_lib.py 56-58, given the object load_prompt_library returned
get_prompt(obj, name) ==
    LET cfg == heap[obj]
    IN IF cfg.t # "dict" \/ cfg.prompts.k # "dict" THEN Raised
       ELSE IF name \notin DOMAIN cfg.prompts.v THEN Raised
       ELSE Returned(PromptRef(obj, name))

\* prompt_lib.py 61-66, given the object load_prompt_library returned
get_prompt_flow(obj) ==
    LET cfg == heap[obj]
    IN IF cfg.t # "dict" THEN Raised
       ELSE IF cfg.prompt_flow.k # "list" \/ cfg.prompt_flow.v = <<>>
       THEN Returned(deepcopy(DefaultRef))
       ELSE Returned(deepcopy(FlowRef(obj)))

LibInit ==
    /\ config_file \in FileVals
    /\ LibraryFresh
    /\ fn = NotYet
    /\ flow = <<>>
    /\ signals = Signals(FALSE, FALSE, FALSE, <<>>, <<>>)
    /\ images_data = FALSE
    /\ pc = "lib"
    /\ idx = 1
    /\ flow_outputs = NoOutputs
    /\ prompt_errors = <<>>
    /\ summary_pages = {}
    /\ audit_citations = <<>>
    /\ final_node_id = None
    /\ halt = "none"
    /\ primary = NotYet
    /\ secondary_reply = NotYet
    /\ secondary = NotYet
    /\ result = NotYet

\* calls begun so far: every thread that is not outside has begun one
Begun(t) == callers[t].calls

\* a thread calls one of the three functions; each starts in the lru_cache
\* wrapper of load_prompt_library
CallLibrary(t) ==
    /\ pc = "lib"
    /\ callers[t].pc = "idle"
    /\ Begun(t) < MaxCalls
    /\ \E req \in Requests :
        callers' = [callers EXCEPT ![t] =
            [Outside EXCEPT !.pc = "lookup", !.op = req.op, !.name = req.name,
                            !.calls = Begun(t) + 1]]
    /\ UNCHANGED <<Pipeline, fn, config_file, heap, cache, default_flow>>

\* the wrapper's cache lookup: a hit returns the cached object
CacheLookup(t) ==
    /\ callers[t].pc = "lookup"
    /\ callers' = [callers EXCEPT ![t].pc = IF cache # 0 THEN "body" ELSE "open",
                                  ![t].cfg = cache]
    /\ UNCHANGED <<Pipeline, fn, config_file, heap, cache, default_flow>>

\* prompt_lib.py 52-53: open the file and parse it
LoadFile(t) ==
    /\ callers[t].pc = "open"
    /\ IF OpenRaises(config_file)
       THEN /\ callers' = [callers EXCEPT ![t].pc = "idle", ![t].raised = TRUE]
            /\ UNCHANGED heap
       ELSE /\ heap' = Append(heap, safe_load(config_file))
            /\ callers' = [callers EXCEPT ![t].pc = "store", ![t].cfg = Len(heap) + 1]
    /\ UNCHANGED <<Pipeline, fn, config_file, cache, default_flow>>

\* the wrapper after the call: store the result unless the key is there by now
CacheStore(t) ==
    /\ callers[t].pc = "store"
    /\ cache' = IF cache = 0 THEN callers[t].cfg ELSE cache
    /\ callers' = [callers EXCEPT ![t].pc = "body"]
    /\ UNCHANGED <<Pipeline, fn, config_file, heap, default_flow>>

\* the rest of the called function, from the object load_prompt_library gave
ReturnValue(t) ==
    /\ callers[t].pc = "body"
    /\ LET c == callers[t]
           out == CASE c.op = "get_prompt" -> get_prompt(c.cfg, c.name)
                    [] c.op = "get_prompt_flow" -> get_prompt_flow(c.cfg)
                    [] OTHER -> Returned(CfgRef(c.cfg))
       IN callers' = [callers EXCEPT ![t].pc = "idle",
                                     ![t].raised = out.raised,
                                     ![t].ref = out.ref,
                                     ![t].seen = IF out.raised THEN <<>>
                                                 ELSE Deref(out.ref)]
    /\ UNCHANGED <<Pipeline, fn, config_file, heap, cache, default_flow>>

\* what a caller may do to a flow it holds
FlowEdits == {"remove", "add", "edit", "nested"}

EditFlow(f, how) ==
    CASE how = "remove" -> SubSeq(f, 1, Len(f) - 1)
      [] how = "add" -> Append(f, Node("extra"))
      [] how = "edit" -> [f EXCEPT ![1].final_node = ~@]
      [] OTHER -> [f EXCEPT ![1].depends_on = @ \cup {"extra"}]

\* the caller changes, in place, the object it was handed
CallerMutates(t) ==
    /\ callers[t].pc = "idle"
    /\ ~callers[t].raised
    /\ ~callers[t].mutated
    /\ LET ref == callers[t].ref
       IN CASE ref.k \in {"own", "cfg_flow", "default"} ->
                 \E how \in FlowEdits :
                    LET edited == EditFlow(Deref(ref), how)
                    IN CASE ref.k = "own" ->
                              /\ callers' = [callers EXCEPT ![t].ref = OwnRef(edited),
                                                            ![t].mutated = TRUE]
                              /\ UNCHANGED <<heap, default_flow>>
                         [] ref.k = "cfg_flow" ->
                              /\ heap' = [heap EXCEPT ![ref.obj].prompt_flow.v = edited]
                              /\ callers' = [callers EXCEPT ![t].mutated = TRUE]
                              /\ UNCHANGED default_flow
                         [] OTHER ->
                              /\ default_flow' = edited
                              /\ callers' = [callers EXCEPT ![t].mutated = TRUE]
                              /\ UNCHANGED heap
            [] ref.k = "prompt" ->
                 /\ heap' = [heap EXCEPT
                                ![ref.obj].prompts.v[ref.name].content = "edited"]
                 /\ callers' = [callers EXCEPT ![t].mutated = TRUE]
                 /\ UNCHANGED default_flow
            [] ref.k = "cfg" /\ heap[ref.obj].t = "dict" ->
                 \* cfg["prompt_flow"] = [] or cfg["prompts"][name]["content"] = ...
                 /\ \/ heap' = [heap EXCEPT ![ref.obj].prompt_flow = ListOf(<<>>)]
                    \/ \E name \in DOMAIN heap[ref.obj].prompts.v :
                          heap' = [heap EXCEPT
                                     ![ref.obj].prompts.v[name].content = "edited"]
                 /\ callers' = [callers EXCEPT ![t].mutated = TRUE]
                 /\ UNCHANGED default_flow
            [] OTHER -> FALSE
    /\ UNCHANGED <<Pipeline, fn, config_file, cache>>

LibNext ==
    \E t \in Threads :
        \/ CallLibrary(t)
        \/ CacheLookup(t)
        \/ LoadFile(t)
        \/ CacheStore(t)
        \/ ReturnValue(t)
        \/ CallerMutates(t)

LibSpec == LibInit /\ [][LibNext]_vars

-----------------------------------------------------------------------------
(* Properties of classify_document *)

Executed == DOMAIN flow_outputs

\* node k ran and its recorded output is a failure marker
Failed(k) == flow[k].id \in Executed /\ flow_outputs[flow[k].id].shape = "marker"

\* the loop broke at node k
HaltedAt(k) == halt # "none" /\ idx = k + 1

\* the secondary call raised, returned nothing, or returned an error key
SecondaryCallFailed ==
    \/ secondary_reply.kind \in {"raise", "none"}
    \/ secondary_reply.kind = "dict" /\ Truthy(Get(secondary_reply.error))

\* C1: classify_document never raises: whatever the node calls, the terminal
\* output and the secondary-reasoning call do, control never leaves the
\* function through an exception.
C1_NeverRaises == pc # "raised"

\* The fallback ladder as the specification states it.
LadderCategory(sig) ==
    CASE sig.has_unsafe_pattern -> "Unsafe"
      [] ~sig.has_unsafe_pattern /\ sig.has_pii -> "Highly Sensitive"
      [] ~sig.has_unsafe_pattern /\ ~sig.has_pii /\ sig.has_internal_markers ->
            "Confidential"
      [] OTHER -> "Public"

LadderTags(sig) ==
    CASE LadderCategory(sig) = "Unsafe" -> <<"Safety-Risk">>
      [] LadderCategory(sig) = "Highly Sensitive" -> <<"PII">>
      [] LadderCategory(sig) = "Confidential" -> <<"Internal">>
      [] OTHER -> <<>>

\* C2: when every executed node's call failed and the secondary call failed,
\* the result's category, tags and confidence are the fallback ladder's for
\* the signals, with confidence 0.7.
C2_AllCallsFailGivesLadder ==
    (pc = "done" /\ SecondaryCallFailed /\ \A id \in Executed : flow_outputs[id].shape = "marker")
    => /\ result.final_category = LadderCategory(signals)
       /\ result.secondary_tags = LadderTags(signals)
       /\ result.confidence = 70

\* C2 witness: two nodes failed one after the other, the secondary call
\* raised, and the PII rung decided.
C2_Witness ==
    /\ pc = "done"
    /\ Len(prompt_errors) = 2
    /\ \A id \in Executed : flow_outputs[id].shape = "marker"
    /\ secondary_reply.kind = "raise"
    /\ signals.has_pii /\ ~signals.has_unsafe_pattern
    /\ result.final_category = "Highly Sensitive"

\* The review conditions in their fixed order, read off the result.
ReviewConditions ==
    << <<"low_confidence", result.confidence < 80>>,
       <<"unsafe_detector", signals.has_unsafe_pattern>>,
       <<"prompt_errors", prompt_errors # <<>> >>,
       <<"llm_disagreement",
         result.dual_llm_agreement < 3 \/ result.disagreements # <<>> >>,
       <<"secondary_llm_flag", secondary.needs_review>> >>

NamesOfHolding(conds) ==
    LET Holds(c) == c[2]
        held == SelectSeq(conds, Holds)
    IN [k \in 1..Len(held) |-> held[k][1]]

\* C6: the trigger list holds exactly the names of the review conditions that
\* hold, in the fixed order, and requires_review is true iff one holds.
C6_ReviewTriggers ==
    pc = "done"
    => /\ result.review_triggers = NamesOfHolding(ReviewConditions)
       /\ result.requires_review <=> (\E k \in 1..5 : ReviewConditions[k][2])

\* C6 witness: confidence 0.9, no unsafe signal, no prompt errors, agreement
\* 1.0, secondary needs_review false, and no review required.
C6_Witness ==
    /\ pc = "done"
    /\ result.confidence = 90
    /\ ~signals.has_unsafe_pattern
    /\ prompt_errors = <<>>
    /\ result.dual_llm_agreement = 4
    /\ ~secondary.needs_review
    /\ ~result.requires_review

\* C7: a node without an explicit stop_on_error whose call failed is the
\* terminal node, the loop has ended, and no node declared after it ran.
C7_DefaultStopOnErrorHalts ==
    \A k \in 1..Len(flow) :
        (Failed(k) /\ flow[k].stop_on_error = "unset")
        => /\ final_node_id = flow[k].id
           /\ pc # "loop"
           /\ \A j \in (k + 1)..Len(flow) : flow[j].id \notin Executed

\* C7 witness: the first of two nodes failed with stop_on_error unset and the
\* run finished with it as the terminal node.
C7_Witness ==
    /\ pc = "done"
    /\ Len(flow) >= 2
    /\ Failed(1) /\ flow[1].stop_on_error = "unset"
    /\ final_node_id = flow[1].id

\* C8 as stated: when a node with stop_on_error=false fails, the flow does
\* not stop at that node.
C8_SoftFailureNeverStops ==
    \A k \in 1..Len(flow) :
        (Failed(k) /\ flow[k].stop_on_error = "false") => ~HaltedAt(k)

\* C8 amended: the failure of a node with stop_on_error=false does not itself
\* stop the flow; the flow stops at that node only when one of its stop_if
\* rules fires on the failure marker or the node is a final_node, and
\* otherwise the loop moves on to the nodes declared after it.
C8_SoftFailureStopsOnlyByRule ==
    \A k \in 1..Len(flow) :
        (Failed(k) /\ flow[k].stop_on_error = "false")
        => /\ idx > k
           /\ HaltedAt(k) <=>
                (\/ \E n \in 1..Len(flow[k].stop_if) :
                        RuleFires(flow[k].stop_if[n], Payload(flow_outputs[flow[k].id]))
                 \/ flow[k].final_node)
           /\ (~HaltedAt(k) /\ pc # "loop" /\ halt = "none") => idx = Len(flow) + 1

\* C8 witness: the first node failed with stop_on_error=false and the second
\* node ran after it.
C8_Witness ==
    /\ Len(flow) >= 2
    /\ Failed(1) /\ flow[1].stop_on_error = "false"
    /\ flow[2].id \in Executed

\* C9: when nothing halted the loop, the terminal node is the last declared
\* node whose id is in the output map, and there is none only if no node ran.
C9_TerminalIsLastWithOutput ==
    (pc \in {"build", "consensus", "done", "raised"} /\ halt = "none")
    => /\ final_node_id = None <=> Executed = {}
       /\ final_node_id # None =>
            \E k \in 1..Len(flow) :
                /\ flow[k].id = final_node_id
                /\ flow[k].id \in Executed
                /\ \A j \in (k + 1)..Len(flow) : flow[j].id \notin Executed

\* C9 witness: of three nodes the first was skipped by its run condition, the
\* second ran, the third was skipped for its missing dependency, and the
\* second is the terminal node.
C9_Witness ==
    /\ pc = "build" /\ halt = "none"
    /\ Len(flow) = 3
    /\ flow[1].id \notin Executed /\ flow[2].id \in Executed
    /\ flow[3].id \notin Executed
    /\ final_node_id = flow[2].id

\* C10: when the secondary analysis carries an error (error key, empty reply
\* or raised exception), the agreement score is 0.0, the disagreement list is
\* ["secondary_llm_error"], and category, confidence, explanation and tags
\* are the primary's.
C10_SecondaryErrorKeepsPrimary ==
    (pc = "done" /\ SecondaryCallFailed)
    => /\ result.dual_llm_agreement = 0
       /\ result.disagreements = <<Disagreement("secondary_llm_error", None, None, 0)>>
       /\ result.final_category = primary.category
       /\ result.confidence = primary.confidence
       /\ result.explanation = primary.explanation
       /\ result.secondary_tags = primary.secondary_tags

\* C15: the final_category of every returned result is one of Public,
\* Confidential, Highly Sensitive, Unsafe, whatever the terminal output's
\* final_category and the secondary label are.
C15_FinalCategoryInSet ==
    pc = "done" => result.final_category \in Categories

\* C16: every citation of the result has a non-empty snippet, whether it
\* came from a node's output, from the terminal node's own list or from the
\* detector hit spans of the fallback.
C16_NoEmptySnippet ==
    pc = "done"
    => \A k \in 1..Len(result.citations) : result.citations[k].snippet # <<>>

\* The run condition as the specification states it.
PassesRunCondition(node) ==
    /\ node.has_images => images_data
    /\ \A attr \in node.signals_true : GetAttr(signals, attr)
    /\ \A attr \in node.signals_false : ~GetAttr(signals, attr)

\* every dependency of the node has an entry in the output map
DepsPresent(node) == \A dep \in node.depends_on : dep \in DOMAIN flow_outputs

\* the node is a multimodal one and there are no images
LacksImages(node) == node.runner = "multimodal" /\ ~images_data

\* C17 as stated: a node that passes its run condition executes in this
\* step of the loop if and only if all its dependencies are in the output
\* map at that moment.
C17_DependencyGateDecides ==
    [][(pc = "loop" /\ PassesRunCondition(flow[idx]))
       => (flow[idx].id \in DOMAIN flow_outputs' <=> DepsPresent(flow[idx]))]_vars

\* C17 amended: a node that passes its run condition and is not a multimodal
\* node facing an empty image list executes if and only if all its
\* dependencies are in the output map at that moment, failure markers
\* counting as present.
C17_DependencyGateDecidesGivenImages ==
    [][(pc = "loop" /\ PassesRunCondition(flow[idx]) /\ ~LacksImages(flow[idx]))
       => (flow[idx].id \in DOMAIN flow_outputs' <=> DepsPresent(flow[idx]))]_vars

\* C17 witness: the first node failed with stop_on_error=false and the
\* second node, which depends on it, executed.
C17_Witness ==
    /\ Len(flow) >= 2
    /\ Failed(1) /\ flow[1].stop_on_error = "false"
    /\ flow[1].id \in flow[2].depends_on
    /\ flow[2].id \in Executed

\* the ids of the executed nodes whose output is a failure marker, in
\* declared order
FailedInOrder ==
    LET ids == [k \in 1..Len(flow) |-> flow[k].id]
        IsFailed(id) == id \in Executed /\ flow_outputs[id].shape = "marker"
    IN SelectSeq(ids, IsFailed)

\* C18: the error list is exactly the executed nodes with a failure marker,
\* each once and in declared order; a node the loop executes gets an entry in
\* the output map; a node skipped by its run condition, by its dependency
\* gate or as a multimodal node without images changes neither the output
\* map nor the error list.
C18_OutputsAndErrors ==
    /\ [](pc # "fn" /\ pc # "lib" => prompt_errors = FailedInOrder)
    /\ [][pc = "loop"
          => IF \/ ~PassesRunCondition(flow[idx])
                \/ ~DepsPresent(flow[idx])
                \/ LacksImages(flow[idx])
             THEN flow_outputs' = flow_outputs /\ prompt_errors' = prompt_errors
             ELSE flow[idx].id \in DOMAIN flow_outputs']_vars

\* C18 witness: of three nodes the first was skipped by its run condition,
\* the second failed without stopping the flow, the third was skipped for its
\* missing dependency, and the error list holds the second only.
C18_Witness ==
    /\ pc = "select"
    /\ Len(flow) = 3 /\ idx = 4
    /\ flow[1].id \notin Executed
    /\ Failed(2)
    /\ flow[3].id \notin Executed
    /\ prompt_errors = <<flow[2].id>>

\* a stop condition holds at executed node k: failure with stop_on_error
\* true (the default), a firing stop_if rule, or the final_node flag
StopHolds(k) ==
    LET node == flow[k]
        out == flow_outputs[node.id]
    IN \/ out.shape = "marker" /\ node.stop_on_error # "false"
       \/ \E n \in 1..Len(node.stop_if) : RuleFires(node.stop_if[n], Payload(out))
       \/ node.final_node

\* C19: nodes are visited in declared order, each at most once; an executed
\* node at which a stop condition holds is the terminal node, the loop has
\* ended and no node declared after it has executed; and a terminal node,
\* once set, is never reassigned.
C19_FirstStopIsTerminal ==
    /\ [](\A k \in 1..Len(flow) :
            (flow[k].id \in Executed /\ StopHolds(k))
            => /\ final_node_id = flow[k].id
               /\ pc # "loop"
               /\ \A j \in (k + 1)..Len(flow) : flow[j].id \notin Executed)
    /\ [][/\ idx' \in {idx, idx + 1}
          /\ flow_outputs' # flow_outputs
             => /\ pc = "loop" /\ idx' = idx + 1
                /\ flow[idx].id \notin Executed
                /\ DOMAIN flow_outputs' = Executed \cup {flow[idx].id}
          /\ final_node_id # None => final_node_id' = final_node_id]_vars

\* C19 witness: a stop_if rule fired at the first of two nodes, which is the
\* terminal node of the finished run, and the second never executed.
C19_Witness ==
    /\ pc = "done"
    /\ Len(flow) = 2
    /\ halt = "stop_if"
    /\ final_node_id = flow[1].id
    /\ flow[2].id \notin Executed

\* the primary analysis has been built
Built == pc \in {"consensus", "done", "raised"}

\* the terminal output is there and is no failure marker, but cannot be read
\* as a decision: it has no final_category, or is no dict at all
Unreadable(out) ==
    \/ out.shape = "list"
    \/ out.shape = "dict" /\ out.final_category = Absent

\* C22: when the terminal output is present and no failure marker but lacks
\* final_category (or cannot be parsed), the primary analysis is the fallback
\* ladder's decision (engine "fallback", confidence 0.7), as with no terminal
\* node; when final_category is present, missing secondary_tags default to
\* the empty list and a missing confidence to 0.7.
C22_UnreadableTerminalFallsBack ==
    Built =>
      /\ Unreadable(FinalOut)
         => /\ primary.engine = "fallback"
            /\ primary.category = LadderCategory(signals)
            /\ primary.secondary_tags = LadderTags(signals)
            /\ primary.confidence = 70
      /\ (/\ FinalOut.shape = "dict"
          /\ FinalOut.final_category # Absent
          /\ FinalOut.secondary_tags = NoList
          /\ FinalOut.confidence = NoConf
          /\ FinalOut.citations = <<>>)
         => /\ primary.engine = "prompt_tree"
            /\ primary.category = FinalOut.final_category
            /\ primary.secondary_tags = <<>>
            /\ primary.confidence = 70

\* C22 witness: the terminal node answered with a dict that has no
\* final_category and the PII rung of the ladder decided.
C22_Witness ==
    /\ pc = "done"
    /\ FinalOut.shape = "dict"
    /\ FinalOut.final_category = Absent
    /\ primary.engine = "fallback"
    /\ primary.category = "Highly Sensitive"

\* the citations harvested from the first k nodes of the flow, in execution
\* order, the failed and the skipped ones contributing nothing
RECURSIVE HarvestedUpTo(_)
HarvestedUpTo(k) ==
    IF k = 0 THEN <<>>
    ELSE HarvestedUpTo(k - 1)
         \o (IF flow[k].id \in Executed /\ ~Failed(k)
             THEN _collect_citations(flow[k].id, flow_outputs[flow[k].id])
             ELSE <<>>)

\* what the decision itself adds: the terminal reply's own citations, or the
\* detector hit spans of the fallback
DecisionCitations ==
    IF primary.engine = "fallback"
    THEN FirstN(IF signals.pii_hits # <<>> THEN signals.pii_hits
                ELSE signals.unsafe_hits, 3)
    ELSE FinalDecisionCitations(FinalOut.citations)

\* C23: the result's citation list is the de-duplication of the audit list,
\* which is the citations harvested from every non-failing executed node in
\* execution order followed by the terminal output's own citations or the
\* fallback hit spans; citations harvested from earlier nodes are kept when
\* the decision falls back.
C23_CitationsAreDedupedAudit ==
    pc = "done"
    => LET merged == HarvestedUpTo(Len(flow)) \o DecisionCitations
       IN /\ audit_citations = merged
          /\ result.citations = _dedupe_citations(merged)

\* C23 witness: the terminal unsafe_scan reply gave two citations with the
\* same key and no final_category; the result lists the one kept and the
\* first three PII hits of the fallback.
C23_Witness ==
    /\ pc = "done"
    /\ primary.engine = "fallback"
    /\ Len(HarvestedUpTo(Len(flow))) = 2
    /\ Len(audit_citations) = 5
    /\ Len(result.citations) = 4
    /\ result.citations[1].source = "unsafe_scan"
    /\ result.citations[4].source = "detector"

\* the secondary label as the resolver gets it, and whether the secondary
\* analysis is the one whose category was taken
SecondaryLabel == IF Truthy(secondary.error) THEN None ELSE secondary.label

SecondaryTaken == result.final_category = SecondaryLabel /\ ~Truthy(secondary.error)

\* C25 as stated: the final confidence, explanation and tags are the
\* secondary's when the resolved category equals the secondary label and the
\* secondary has no error, and the primary's, unchanged, in every other case.
C25_TakenAnalysisSuppliesAll ==
    pc = "done"
    => IF SecondaryTaken
       THEN /\ result.confidence = secondary.confidence
            /\ result.explanation = secondary.explanation
            /\ result.secondary_tags = secondary.critical_info
       ELSE /\ result.confidence = primary.confidence
            /\ result.explanation = primary.explanation
            /\ result.secondary_tags = primary.secondary_tags

\* C25: the final confidence and explanation are the secondary's when the
\* resolved category equals the secondary label and the secondary has no
\* error, and so are the tags unless the secondary has none, in which case
\* the primary's tags stay; in every other case the primary's confidence,
\* explanation and tags are used unchanged.
C25_TakenAnalysisSuppliesAllButEmptyTags ==
    pc = "done"
    => IF SecondaryTaken
       THEN /\ result.confidence = secondary.confidence
            /\ result.explanation = secondary.explanation
            /\ result.secondary_tags =
                  (IF secondary.critical_info # <<>> THEN secondary.critical_info
                   ELSE primary.secondary_tags)
       ELSE /\ result.confidence = primary.confidence
            /\ result.explanation = primary.explanation
            /\ result.secondary_tags = primary.secondary_tags

\* C25 witness: the secondary analysis agreed on the category and supplied
\* confidence and explanation, but had no critical_info, and the primary's
\* tags were kept.
C25_Witness ==
    /\ pc = "done"
    /\ SecondaryTaken
    /\ secondary.critical_info = <<>>
    /\ primary.secondary_tags = <<"T1">>
    /\ result.secondary_tags = <<"T1">>
    /\ result.confidence = secondary.confidence
    /\ result.confidence # primary.confidence
    /\ result.explanation = "secondary rationale"

TriggerFired(name) ==
    \E k \in 1..Len(result.review_triggers) : result.review_triggers[k] = name

\* C27: whenever an executed node produced a failure marker, or the secondary
\* analysis carries an error (its call raised, returned nothing, or returned
\* an error key), the result has requires_review = true.
C27_FailureForcesReview ==
    (/\ pc = "done"
     /\ \/ \E k \in 1..Len(flow) : Failed(k)
        \/ Truthy(secondary.error)
        \/ SecondaryCallFailed)
    => result.requires_review

\* C27 witness: the first node failed without stopping the flow, the second
\* decided with confidence 0.9 and the secondary analysis agreed, so that
\* the failed node is the only reason for the review.
C27_Witness ==
    /\ pc = "done"
    /\ Failed(1)
    /\ primary.engine = "prompt_tree"
    /\ result.dual_llm_agreement = 4
    /\ result.review_triggers = <<"prompt_errors">>
    /\ result.requires_review

\* C28 as stated: whenever the primary analysis comes from the fallback
\* ladder, the result has requires_review = true.
C28_FallbackForcesReview ==
    pc = "done" /\ primary.engine = "fallback" => result.requires_review

\* C28: whenever the primary analysis comes from the fallback ladder and the
\* final confidence is below 0.8 (always, unless a secondary confidence of at
\* least 0.8 was taken), the low_confidence trigger fires and the result has
\* requires_review = true.
C28_FallbackForcesReviewBelowThreshold ==
    (pc = "done" /\ primary.engine = "fallback" /\ result.confidence < 80)
    => TriggerFired("low_confidence") /\ result.requires_review

\* C28 witness: no node ran, the ladder decided with 0.7 and that confidence
\* is the final one.
C28_Witness ==
    /\ pc = "done"
    /\ final_node_id = None
    /\ primary.engine = "fallback"
    /\ ~SecondaryTaken
    /\ result.confidence = 70
    /\ result.review_triggers[1] = "low_confidence"
    /\ result.requires_review

\* C29: the disagreement list is empty iff the agreement score is 1.0;
\* dual_llm_disagreements is null exactly when dual_llm_agreement = 1.0, and
\* the llm_disagreement trigger fires exactly when the score is below 1.0.
C29_DisagreementsIffBelowOne ==
    pc = "done"
    => /\ result.disagreements = <<>> <=> result.dual_llm_agreement = 4
       /\ result.dual_llm_disagreements_is_null <=> result.dual_llm_agreement = 4
       /\ TriggerFired("llm_disagreement") <=> result.dual_llm_agreement < 4

\* C29 witness: the categories agree and the confidences are too far apart:
\* score 0.75, one disagreement, the trigger fired.
C29_Witness ==
    /\ pc = "done"
    /\ result.dual_llm_agreement = 3
    /\ Len(result.disagreements) = 1
    /\ result.disagreements[1].kind = "confidence_gap"
    /\ ~result.dual_llm_disagreements_is_null
    /\ TriggerFired("llm_disagreement")

-----------------------------------------------------------------------------
(* Properties of the pure helpers *)

FnDone(op) == pc = "fn" /\ fn.op = op /\ fn.done

\* C3: the agreement score is one of 0, 0.25, 0.5, 0.75, 1.0 (0..4 quarters)
\* and is 0.0 iff the secondary analysis carries an error.
C3_AgreementScore ==
    FnDone("agreement")
    => /\ fn.ret.score \in {0, 1, 2, 3, 4}
       /\ fn.ret.score = 0 <=> fn.secondary.error \notin {None, ""}

\* C3 witness: no error, categories differ and the confidences are far
\* apart: the lowest score without an error, 0.25.
C3_Witness ==
    /\ FnDone("agreement")
    /\ fn.secondary.error = None
    /\ fn.primary.category = "Public" /\ fn.secondary.label = "Unsafe"
    /\ fn.primary.confidence = 50 /\ fn.secondary.confidence = 100
    /\ fn.ret.score = 1

\* The severity table of the specification; anything else counts 0.
Severity(cat) ==
    IF cat = "Unsafe" THEN 4
    ELSE IF cat = "Highly Sensitive" THEN 3
    ELSE IF cat = "Confidential" THEN 2
    ELSE IF cat = "Public" THEN 1
    ELSE 0

IsAbsent(cat) == cat \in {None, ""}

\* C4: resolve returns cat2 when cat1 is absent, cat1 when cat2 is absent,
\* else the more severe argument (cat1 on equal severity); the result is
\* never less severe than either argument.
C4_ResolveMostSevere ==
    FnDone("resolve")
    => /\ IsAbsent(fn.cat1) => fn.ret = fn.cat2
       /\ (~IsAbsent(fn.cat1) /\ IsAbsent(fn.cat2)) => fn.ret = fn.cat1
       /\ (~IsAbsent(fn.cat1) /\ ~IsAbsent(fn.cat2))
            => fn.ret = (IF Severity(fn.cat1) >= Severity(fn.cat2)
                         THEN fn.cat1 ELSE fn.cat2)
       /\ Severity(fn.ret) >= Severity(fn.cat1)
       /\ Severity(fn.ret) >= Severity(fn.cat2)

\* C4 witness: the second argument is the more severe one and is returned.
C4_Witness ==
    /\ FnDone("resolve")
    /\ fn.cat1 = "Confidential" /\ fn.cat2 = "Unsafe"
    /\ fn.ret = "Unsafe"

\* The dedup key as the specification states it.
StatedKey(cite) ==
    <<cite.page, cite.image_index,
      IF cite.region.null THEN <<>> ELSE Strip(cite.region.s),
      IF cite.source = None THEN "" ELSE cite.source,
      Prefix(Strip(cite.snippet), 120)>>

\* the citations of xs that are the first with their key, in input order
FirstPerKey(xs) ==
    LET first == {k \in 1..Len(xs) :
                    \A j \in 1..(k - 1) : StatedKey(xs[j]) # StatedKey(xs[k])}
        Kept[k \in 0..Len(xs)] ==
            IF k = 0 THEN <<>>
            ELSE IF k \in first THEN Append(Kept[k - 1], xs[k]) ELSE Kept[k - 1]
    IN Kept[Len(xs)]

\* C5: _dedupe_citations keeps, in input order, exactly the first citation
\* of each key, and applying it again changes nothing.
C5_DedupeFirstPerKey ==
    FnDone("dedupe")
    => /\ fn.ret = FirstPerKey(fn.citations)
       /\ _dedupe_citations(fn.ret) = fn.ret

\* C5 witness: three citations of which the third repeats the key of the
\* first (same 120-character prefix) and is dropped.
C5_Witness ==
    /\ FnDone("dedupe")
    /\ Len(fn.citations) = 3 /\ Len(fn.ret) = 2
    /\ fn.citations[1].source = None /\ fn.citations[3].source = ""
    /\ fn.ret = SubSeq(fn.citations, 1, 2)

\* The dotted-path lookup as the specification states it: it succeeds with
\* the value found, or fails on a missing key, on a list index that is no
\* integer or out of range, and on a value that is neither dict nor list.
NoMatch == [ok |-> FALSE, v |-> JNone]

RECURSIVE Lookup(_, _)
Lookup(current, parts) ==
    IF parts = <<>> THEN [ok |-> TRUE, v |-> current]
    ELSE LET part == Head(parts)
         IN CASE current.t = "dict" ->
                    IF part \in DOMAIN current.d
                    THEN Lookup(current.d[part], Tail(parts)) ELSE NoMatch
              [] current.t = "list" ->
                    IF /\ part \in DOMAIN IntLiterals
                       /\ IntLiterals[part] >= 0
                       /\ IntLiterals[part] < Len(current.l)
                    THEN Lookup(current.l[IntLiterals[part] + 1], Tail(parts))
                    ELSE NoMatch
              [] OTHER -> NoMatch

FiresAsStated(cond, payload) ==
    /\ cond.path # <<>>
    /\ LET found == Lookup(payload, cond.path)
       IN /\ found.ok
          /\ IF cond.has_equals THEN found.v = cond.equals ELSE TruthyJ(found.v)

\* C20: a stop_if rule fires exactly when its lookup succeeds and the value
\* equals the equals clause or, without one, is truthy; a failed lookup fires
\* no rule, whatever its equals clause.
C20_StopRuleFiresOnlyOnMatch ==
    FnDone("stop_if")
    => (fn.ret <=> \E k \in 1..Len(fn.node_cfg.stop_if) :
                      FiresAsStated(fn.node_cfg.stop_if[k], fn.output))

\* C21: whenever signals.unsafe_hits is non-empty, the citations of the
\* fallback decision are the first three unsafe hits.
C21_FallbackCitesUnsafeHitsFirst ==
    FnDone("fallback") /\ fn.signals.unsafe_hits # <<>>
    => fn.ret.citations = FirstN(fn.signals.unsafe_hits, 3)

\* the component the confidences contribute to the score, in quarters
ClosenessComponent(ret) ==
    LET cat == IF \E k \in 1..Len(ret.disagreements) :
                     ret.disagreements[k].kind = "category"
               THEN 0 ELSE 4
    IN 2 * ret.score - cat

HasConfidenceGap(ret) ==
    \E k \in 1..Len(ret.disagreements) : ret.disagreements[k].kind = "confidence_gap"

\* C24: for a secondary analysis without error the confidence-closeness
\* component is 1.0 exactly when the two confidences differ by less than 0.2
\* and 0.5 otherwise, a confidence_gap disagreement being recorded exactly in
\* the 0.5 case, for all confidences in [0, 1], 0 included.
C24_ClosenessByStatedGap ==
    FnDone("agreement") /\ ~Truthy(fn.secondary.error)
    => LET close == Abs(fn.primary.confidence - fn.secondary.confidence) < 20
       IN /\ ClosenessComponent(fn.ret) = (IF close THEN 4 ELSE 2)
          /\ HasConfidenceGap(fn.ret) <=> ~close

\* the entries _collect_citations walks for this node, and the key it reads
EntriesRead(node_id, output) ==
    CASE node_id = "pii_scan" -> output.pii_spans
      [] node_id \in {"unsafe_scan", "confidentiality_scan", "final_decision"} ->
            output.citations
      [] node_id = "image_analysis" -> output.findings
      [] OTHER -> <<>>

TextKey(node_id) ==
    CASE node_id \in {"pii_scan", "unsafe_scan"} -> "text"
      [] node_id = "image_analysis" -> "description"
      [] OTHER -> "snippet"

\* the extraction raises: .get on a list, a page the Citation model rejects,
\* or join() over a region that is no str
ExtractionRaises(node_id, output) ==
    \/ output.shape = "list"
    \/ /\ output.shape = "dict"
       /\ \E k \in 1..Len(EntriesRead(node_id, output)) :
            LET e == EntriesRead(node_id, output)[k]
            IN /\ e.dict
               /\ StrTruthy(e[TextKey(node_id)])
               /\ \/ e.page = "n/a"
                  \/ node_id = "image_analysis"
                     /\ \E j \in 1..Len(e.regions_of_concern) :
                           e.regions_of_concern[j].null

\* C26: if the citation extraction of a node raises at any point, the node
\* contributes no citations at all.
C26_RaisingNodeContributesNothing ==
    FnDone("collect") /\ ExtractionRaises(fn.node_id, fn.output) => fn.ret = <<>>

-----------------------------------------------------------------------------
(* Properties of app/prompt_lib.py *)

\* thread t has come back from a call of `op`
CameBack(t, op) == callers[t].op = op /\ callers[t].pc = "idle"

\* C11: the configuration file is loaded at most once per process, however
\* the first calls of load_prompt_library / get_prompt / get_prompt_flow
\* from concurrent threads interleave.
C11_LoadedAtMostOnce == Len(heap) <= 1

\* the flow the configuration file defines, or the built-in one
DefinedFlow ==
    IF config_file.doc.prompt_flow.k = "list" /\ config_file.doc.prompt_flow.v # <<>>
    THEN config_file.doc.prompt_flow.v
    ELSE _DEFAULT_PROMPT_FLOW

\* nobody has changed a parsed configuration or the built-in flow
SharedUntouched ==
    /\ \A obj \in 1..Len(heap) : heap[obj] = config_file.doc
    /\ default_flow = _DEFAULT_PROMPT_FLOW

\* C12: get_prompt_flow returns an independent deep copy: a caller changing
\* the flow it was returned leaves every parsed configuration and the
\* built-in default flow as they were, and while those are untouched every
\* get_prompt_flow call has returned the original definition.
C12_FlowCopiesAreIndependent ==
    /\ [](\A t \in Threads :
            (CameBack(t, "get_prompt_flow") /\ ~callers[t].raised /\ SharedUntouched)
            => callers[t].seen = DefinedFlow)
    /\ [][\A t \in Threads :
            (CameBack(t, "get_prompt_flow") /\ ~callers[t].mutated /\ callers'[t].mutated)
            => (heap' = heap /\ default_flow' = default_flow)]_vars

\* C12 witness: one thread has changed the flow it was returned, and the
\* other thread's second call of get_prompt_flow returned the configured flow.
C12_Witness ==
    /\ CameBack("t1", "get_prompt_flow") /\ callers["t1"].mutated
    /\ callers["t1"].ref.v # callers["t1"].seen
    /\ CameBack("t2", "get_prompt_flow") /\ callers["t2"].calls = 2
    /\ ~callers["t2"].raised
    /\ callers["t2"].seen = ConfiguredFlow

\* C13: whatever calls were made and whatever callers did to the values
\* they were returned, get_prompt(name) returns the prompt the
\* configuration file defines.
C13_GetPromptUnchanged ==
    \A t \in Threads :
        (CameBack(t, "get_prompt") /\ ~callers[t].raised)
        => callers[t].seen = config_file.doc.prompts.v[callers[t].name]

\* C14: with no configuration file, an empty one, or one without a
\* prompt_flow entry, get_prompt_flow returns the built-in 6-node flow and
\* does not raise.
C14_DefaultFlowWhenUnconfigured ==
    \A t \in Threads :
        (/\ CameBack(t, "get_prompt_flow")
         /\ \/ ~config_file.exists
            \/ config_file.doc.t = "none"
            \/ config_file.doc.prompt_flow.k = "absent")
        => /\ ~callers[t].raised
           /\ callers[t].seen = _DEFAULT_PROMPT_FLOW
           /\ Len(callers[t].seen) = 6

====
